---- MODULE Spec2Model ----
(***************************************************************************)
(* Model of the compute-and-cache core of ResilientRecursion:              *)
(*   - L1Cache (src/main.go 35-97, src/internal/cache/l1cache.go),         *)
(*   - ComputeEngine.Compute / findNearestCheckpoint / storeCheckpoint /   *)
(*     PreheatCache / FlushToRedis (src/main.go 151-297),                  *)
(*   - the Redis sorted sets "cp:<rHash>" the engine reads and writes.     *)
(*                                                                         *)
(* Scaling.  float64 arithmetic is modelled by a binary floating-point     *)
(* format with the same rounding rules (round to nearest, ties to even,    *)
(* gradual underflow) but a MantBits-bit significand instead of 53 bits,   *)
(* and "%.15e" (16 significant decimal digits) by SigDigits digits.  The   *)
(* pair (MantBits, SigDigits) = (6, 2) keeps the relation of the program's *)
(* pair (53, 16): 10^(SigDigits-1) < 2^MantBits < 10^SigDigits.            *)
(* checkpointMod (1000), the cache size (75) and the preheat limit (50)    *)
(* are scaled down in the same way.                                        *)
(***************************************************************************)
EXTENDS Integers, Sequences, FiniteSets, TLC

\* ------------------------------------------------------------ bounds ----
MaxN == 4            \* largest step n a caller asks for
MaxCalls == 3        \* Compute calls in one behaviour
MaxErrors == 1       \* Redis calls that fail in one behaviour
MaxExpiries == 1     \* sorted sets that reach their TTL in one behaviour
MaxRestarts == 1     \* times the process is started again after a shutdown
MaxPods == 3         \* largest pod count an ownership comparison ranges over

\* ------------------------------------------- scaled program constants ----
MantBits == 6        \* significand bits of float64 (53 in the program)
Scale == 10          \* a float64 v is the integer v * 2^Scale
SigDigits == 2       \* significant digits of "%.15e" (16 in the program)
checkpointMod == 2   \* e.checkpointMod (1000 in the program)
size == 2            \* NewL1Cache(75)
preheatLimit == 1    \* loaded >= 50
HashBits == 8        \* bits of the uint32 of fnv.New32a and of uint32(totalPods)

\* Two request handlers run Compute concurrently.
Procs == {1, 2}
Steps == 0..MaxN

\* ------------------------------------------------- float64 arithmetic ----
One == 2^Scale
Half == One \div 2                   \* 0.5, x_0 of the recurrence

\* The ulp 2^k (k >= 0) of the rational a/b: the least one with
\* a/b < 2^MantBits * ulp.
RECURSIVE UlpFrom(_, _, _)
UlpFrom(a, b, u) == IF a >= (2^MantBits) * u * b THEN UlpFrom(a, b, 2 * u) ELSE u

\* a/b (a >= 0, b > 0) rounded to the nearest float, ties to even.
RoundToFloat(a, b) ==
    IF a = 0 THEN 0
    ELSE LET u   == UlpFrom(a, b, 1)
             q   == a \div (b * u)
             rem == a - q * b * u
             up  == 2 * rem > b * u \/ (2 * rem = b * u /\ q % 2 = 1)
         IN  (IF up THEN q + 1 ELSE q) * u

FMul(a, b) == RoundToFloat(a * b, One)
FSub(a, b) == RoundToFloat(a - b, 1)

\* x = r * x * (1 - x): Go evaluates (r * x) * (1 - x), rounding each operation.
LogisticStep(r, x) == FMul(FMul(r, x), FSub(One, x))

\* The reference value: the n-th iterate from x_0 = 0.5.
RECURSIVE Iterate(_, _)
Iterate(r, n) == IF n = 0 THEN Half ELSE LogisticStep(r, Iterate(r, n - 1))

\* The r values callers send: 3.5, 3.875 and 4.0.
R350 == 7 * (One \div 2)
R3875 == 31 * (One \div 8)
R400 == 4 * One
RValues == {R350, R3875, R400}

\* r * x * (1 - x) for each r and each x in [0, 1], computed once.
NextX == [r \in RValues |-> [x \in 0..One |-> LogisticStep(r, x)]]

\* hashFloat64: the bit pattern of r, which the model's integer stands for.
hashFloat64(r) == r
SeriesKeys == {hashFloat64(r) : r \in RValues}

\* ------------------------------------------------------- partitioning ----
\* The largest k with 2^k <= v (v >= 1), searched from k upward.
RECURSIVE Log2From(_, _)
Log2From(v, k) == IF 2^(k + 1) > v THEN k ELSE Log2From(v, k + 1)

\* binary.Write(h, binary.LittleEndian, rHash): the eight bytes, lowest first,
\* of the IEEE 754 bit pattern of the float the key stands for (r > 0):
\* sign 0, the exponent biased by 1023, the 52 fraction bits.  A model float
\* has at most MantBits - 1 fraction bits, so the low five bytes are zero.
Float64Bytes(rHash) ==
    LET k    == Log2From(rHash, 0)
        frac == ((rHash - 2^k) * 2^12) \div (2^k)
        high == (k - Scale + 1023) * 16 + frac \div 256
    IN  <<0, 0, 0, 0, 0, frac % 256, high % 256, high \div 256>>

\* The bitwise exclusive or of two naturals.
RECURSIVE BitXor(_, _)
BitXor(a, b) ==
    IF a = 0 THEN b
    ELSE IF b = 0 THEN a
    ELSE 2 * BitXor(a \div 2, b \div 2) + ((a + b) % 2)

\* uint32(x), and FNV-1a over a byte sequence, both in HashBits bits: the
\* low HashBits bits of the offset basis 0x811C9DC5 and of the prime
\* 0x01000193, and the product taken modulo 2^HashBits.
Uint32(x) == x % (2^HashBits)
FnvOffset == 197
FnvPrime == 147
RECURSIVE Fnv1a(_, _)
Fnv1a(h, bytes) ==
    IF bytes = <<>> THEN h
    ELSE Fnv1a(Uint32(BitXor(h, Head(bytes)) * FnvPrime), Tail(bytes))

\* The result of an integer division by zero: a run-time panic.
Panic == -1

\* h.Sum32() after binary.Write(h, binary.LittleEndian, rHash), per key.
Sum32 == [rHash \in SeriesKeys |-> Fnv1a(FnvOffset, Float64Bytes(rHash))]

\* getPodForR: int(h.Sum32() % uint32(e.totalPods))
getPodForR(rHash, pods) ==
    IF Uint32(pods) = 0 THEN Panic
    ELSE Sum32[rHash] % Uint32(pods)

\* parsePodID: Sscanf(podID, "pod-%d", &id) into a zero id; the error of a
\* text that does not match is dropped.
PodIDs == {"pod-0", "pod-1", "pod-2", "node-a"}
parsePodID(id) ==
    CASE id = "pod-0" -> 0
      [] id = "pod-1" -> 1
      [] id = "pod-2" -> 2
      [] OTHER -> 0

\* isLocalR
isLocalR(rHash, id, pods) == getPodForR(rHash, pods) = parsePodID(id)

\* ------------------------------------- "%.15e" and Sscanf("%f") (text) ----
\* A stored member is the pair <<q, e>> for the text "q.qq...e<e>" (q has
\* SigDigits digits, q = 0 for zero), or Malformed for a text that is no float.
Malformed == <<-1, 0>>

\* The decimal exponent of v > 0 (v <= 1.0): the e with 10^e <= v < 10^(e+1).
RECURSIVE Exp10From(_, _)
Exp10From(v, e) == IF v * (10^(0 - e)) >= One THEN e ELSE Exp10From(v, e - 1)

\* a/b rounded to the nearest integer, ties to even (strconv's decimal rounding).
RoundHalfEven(a, b) ==
    LET q == a \div b
        rem == a - q * b
    IN  IF 2 * rem > b \/ (2 * rem = b /\ q % 2 = 1) THEN q + 1 ELSE q

\* fmt.Sprintf("%.15e", x) for 0 <= x <= 1.
FormatE(v) ==
    IF v = 0 THEN <<0, 0>>
    ELSE LET e == Exp10From(v, 0)
             q == RoundHalfEven(v * (10^(SigDigits - 1 - e)), One)
         IN  IF q = 10^SigDigits THEN <<q \div 10, e + 1>> ELSE <<q, e>>

\* fmt.Sscanf(member, "%f", &x) into a zero-initialised x: the nearest float
\* to the decimal text; a text that does not scan leaves x = 0.
ScanF(m) ==
    IF m = Malformed THEN 0
    ELSE LET k == SigDigits - 1 - m[2]
         IN  IF k >= 0 THEN RoundToFloat(m[1] * One, 10^k)
                       ELSE RoundToFloat(m[1] * One * (10^(0 - k)), 1)

\* Byte order of two member texts, as Redis orders members of equal score:
\* the mantissa digits first, then the exponent ("e-" sorts after "e+").
MemberAfter(a, b) ==
    /\ a # Malformed /\ b # Malformed
    /\ \/ a[1] > b[1]
       \/ a[1] = b[1] /\ a[2] < b[2]

\* ------------------------------------------------------------- state ----
VARIABLES
    entries,    \* L1Cache.entries: rHash -> (n -> value)
    keys,       \* L1Cache.keys: the ring of size slots (slot i is keys[i + 1])
    head,       \* L1Cache.head
    mu,         \* L1Cache.mu: 0 when free, p while handler p is inside Set
                \*   with the write lock (readers lock and unlock in one step)
    store,      \* Redis: rHash -> the sorted set "cp:<rHash>", a set of
                \*   [member, score] with one score per member
    call,       \* per handler: the position and locals of its Compute call
    served,     \* per handler: the r of the Compute calls its running request
                \*   has made, in order (handleCalculate)
    owner,      \* main: its position, and the locals of its PreheatCache and
                \*   FlushToRedis calls
    inserted,   \* history: the keys held, oldest insertion first
    evicted,    \* history: the keys that have been evicted so far
    podID,      \* ComputeEngine.podID (POD_ID)
    totalPods,  \* ComputeEngine.totalPods (TOTAL_PODS)
    issued,     \* history: the <<key, step>> this process has sent a ZADD for
    upserted,   \* history: per key, the steps whose ZADD Redis applied and
                \*   that have not expired since
    budget      \* what the bounds still allow: handlers in use, Compute calls,
                \*   Redis errors, expiries, restarts

vars ==
    <<entries, keys, head, mu, store, call, served, owner, podID, totalPods,
      inserted, evicted, issued, upserted, budget>>

\* ----------------------------------------------------------- L1Cache ----
Cache == [entries |-> entries, keys |-> keys, head |-> head]

EmptyMap == [k \in {} |-> 0]
\* NewL1Cache(size): an empty map and a ring of zero keys.
NewL1Cache == [entries |-> EmptyMap, keys |-> [s \in 1..size |-> 0], head |-> 0]

\* L1Cache.Get: (value, found).
GetAtCursor(c, rHash, n) ==
    IF rHash \in DOMAIN c.entries /\ n \in DOMAIN c.entries[rHash]
       /\ c.keys[c.head + 1] = rHash
    THEN [val |-> c.entries[rHash][n], ok |-> TRUE]
    ELSE [val |-> 0, ok |-> FALSE]
Get(c, rHash, n) ==
    IF rHash \in DOMAIN c.entries /\ n \in DOMAIN c.entries[rHash]
    THEN [val |-> c.entries[rHash][n], ok |-> TRUE]
    ELSE [val |-> 0, ok |-> FALSE]

\* series[n] = val
PutOnlyStep(series, n, val) == [m \in {n} |-> val]
PutStep(series, n, val) ==
    [m \in (DOMAIN series) \cup {n} |-> IF m = n THEN val ELSE series[m]]

\* if len(c.entries) >= c.size { delete(c.entries, c.keys[c.head]) }
KeptNoEviction(c) == DOMAIN c.entries
KeptAfterEviction(c) ==
    IF Cardinality(DOMAIN c.entries) >= size
    THEN (DOMAIN c.entries) \ {c.keys[c.head + 1]}
    ELSE DOMAIN c.entries

\* The branch of Set for a key that is not in the map.
InsertAtTail(c, rHash, n, val) ==
    LET slot == ((c.head + size - 1) % size) + 1
        kept == IF Cardinality(DOMAIN c.entries) >= size
                THEN (DOMAIN c.entries) \ {c.keys[slot]}
                ELSE DOMAIN c.entries
    IN  [entries |-> [k \in kept \cup {rHash} |->
                        IF k = rHash THEN EmptyMap ELSE c.entries[k]],
         keys    |-> [c.keys EXCEPT ![slot] = rHash],
         head    |-> c.head]
InsertKey(c, rHash, n, val) ==
    [entries |-> [k \in KeptAfterEviction(c) \cup {rHash} |->
                    IF k = rHash THEN EmptyMap ELSE c.entries[k]],
     keys    |-> [c.keys EXCEPT ![c.head + 1] = rHash],
     head    |-> (c.head + 1) % size]

\* L1Cache.Set
SetAlwaysInsert(c, rHash, n, val) ==
    LET c1 == InsertKey(c, rHash, n, val)
    IN  [c1 EXCEPT !.entries[rHash] =
            PutStep(IF rHash \in DOMAIN c.entries THEN c.entries[rHash] ELSE EmptyMap, n, val)]
Set(c, rHash, n, val) ==
    LET c1 == IF rHash \notin DOMAIN c.entries THEN InsertKey(c, rHash, n, val) ELSE c
    IN  [c1 EXCEPT !.entries[rHash] = PutStep(@, n, val)]

\* L1Cache.GetAllEntries: a deep copy of the map.
GetAllEntries(c) == c.entries

\* c.mu.Lock() and c.mu.RLock() return once no writer holds the lock.
LockNeverGranted == FALSE
Lock == mu = 0
RLockSkipped == TRUE
RLock == mu = 0

\* ------------------------------------------- Redis sorted set "cp:..." ----
\* ZADD key score member: a member has one score, so adding a member that is
\* already in the set moves it to the new score.
ZAdd(z, member, score) ==
    {e \in z : e.member # member} \cup {[member |-> member, score |-> score]}

\* The elements a reverse range can return first: the largest score, and among
\* equal scores the member that sorts last.  A malformed text has no fixed
\* place in that order.
ZFirst(z) ==
    {e \in z : \A f \in z : /\ f.score <= e.score
                            /\ ~(f.score = e.score /\ MemberAfter(f.member, e.member))}

\* ZREVRANGEBYSCORE key n 0 LIMIT 0 1
ZRevRangeByScore(z, n) == ZFirst({e \in z : 0 <= e.score /\ e.score <= n})

\* ZREVRANGE key 0 0
ZRangeLowest(z) == {e \in z : \A f \in z : e.score <= f.score}
ZRevRange(z) == ZFirst(z)

\* findNearestCheckpoint once the reply is in: result is the reply's first
\* element, or None for an error or an empty reply.
None == [member |-> Malformed, score |-> -1]
findNearestCheckpoint(result) ==
    IF result = None
    THEN [found |-> FALSE, x |-> 0, startN |-> 0]
    ELSE [found |-> TRUE, x |-> ScanF(result.member), startN |-> result.score]

\* storeCheckpoint: ZADD cp:<rHash> n "%.15e"(x), then EXPIRE.
storeCheckpoint(st, rHash, n, x) ==
    [st EXCEPT ![rHash] = ZAdd(@, FormatE(x), n)]

\* The test Compute and FlushToRedis make before writing step n.
IsCheckpointStepAny(n) == TRUE
IsCheckpointStep(n) == n % checkpointMod = 0

\* FlushToRedis: the ZADDs queued for a snapshot.
BatchAllSteps(snap) ==
    {[key |-> k, member |-> FormatE(snap[k][n]), score |-> n] :
        <<k, n>> \in {kn \in (DOMAIN snap) \X Steps : kn[2] \in DOMAIN snap[kn[1]]}}
Batch(snap) ==
    {[key |-> k, member |-> FormatE(snap[k][n]), score |-> n] :
        <<k, n>> \in {kn \in (DOMAIN snap) \X Steps :
                        kn[2] \in DOMAIN snap[kn[1]] /\ IsCheckpointStep(kn[2])}}

\* The sorted sets a key can hold after the ZADDs of `batch` for it ran in
\* some order (the batch is queued in map iteration order).
KeyResults(z, k, batch) ==
    LET mine == {[member |-> b.member, score |-> b.score] : b \in {c \in batch : c.key = k}}
        members == {b.member : b \in mine}
        last == {w \in SUBSET mine :
                    \A m \in members : Cardinality({b \in w : b.member = m}) = 1}
    IN  {{e \in z : e.member \notin members} \cup w : w \in last}

RECURSIVE ApplyKeys(_, _, _)
ApplyKeys(st, batch, ks) ==
    IF ks = {} THEN {st}
    ELSE LET k == CHOOSE kk \in ks : TRUE
         IN  UNION {ApplyKeys([st EXCEPT ![k] = z], batch, ks \ {k}) :
                        z \in KeyResults(st[k], k, batch)}

\* pipe.Exec: every queued ZADD applied.
Exec(st, batch) == ApplyKeys(st, batch, {b.key : b \in batch})

\* ------------------------------------------------------ initial state ----
EmptyStore == [k \in SeriesKeys |-> {}]

\* The behaviours explored: two concurrent handlers, or one handler with one
\* more call, or one handler with Redis errors, expiries and a restart.
FaultBudget ==
    [handlers |-> 1, calls |-> MaxCalls - 1, errors |-> MaxErrors,
     expiries |-> MaxExpiries, restarts |-> MaxRestarts]
Budgets ==
    { [handlers |-> 2, calls |-> MaxCalls - 1, errors |-> 0, expiries |-> 0, restarts |-> 0],
      [handlers |-> 1, calls |-> MaxCalls, errors |-> 0, expiries |-> 0, restarts |-> 0],
      FaultBudget }

\* Redis holding a checkpoint whose value text is damaged.
DamagedStore ==
    [EmptyStore EXCEPT ![hashFloat64(R350)] =
        {[member |-> Malformed, score |-> checkpointMod]}]

\* POD_ID and TOTAL_PODS as deployed: main's defaults (pod-0 of 3), a pod of
\* two whose name has no ordinal, and a pod count that uint32 truncates to 0.
PodConfigs == {<<"pod-0", 3>>, <<"node-a", 2>>, <<"pod-0", 2^HashBits>>}

IdleCall ==
    [pc |-> "idle", r |-> 0, n |-> 0, x |-> 0, i |-> 0,
     hit |-> FALSE,        \* answered from L1
     warned |-> FALSE,     \* logged "Computing non-local r"
     found |-> FALSE,      \* checkpoint != nil
     startN |-> 0,         \* computeFrom
     startX |-> 0,         \* x before the loop
     malformed |-> FALSE,  \* the reply's member text was no float
     ios |-> 0,            \* Redis calls made by this call
     failed |-> FALSE]     \* one of them returned an error

\* Where main is: in PreheatCache ("preheat", line 389), then serves requests
\* ("serving", lines 392-404), then on a signal is in FlushToRedis between the
\* snapshot and the Exec ("exec", line 409), then in server.Shutdown
\* ("shutdown", line 415), which accepts no new request.
OwnerAt(pc) == [pc |-> pc, visited |-> {}, loaded |-> 0, snap |-> EmptyMap]

InitEngine ==
    /\ entries = NewL1Cache.entries
    /\ keys = NewL1Cache.keys
    /\ head = NewL1Cache.head
    /\ mu = 0
    /\ call = [p \in Procs |-> IdleCall]
    /\ served = [p \in Procs |-> <<>>]
    /\ owner = OwnerAt("preheat")
    /\ inserted = <<>>
    /\ evicted = {}
    /\ issued = {}
    /\ \E c \in PodConfigs : podID = c[1] /\ totalPods = c[2]

\* The steps a store holds, per key.
StepsOf(st) == [k \in SeriesKeys |-> {e.score : e \in st[k]}]

Init ==
    /\ InitEngine
    /\ store = EmptyStore
    /\ upserted = StepsOf(EmptyStore)
    /\ budget \in Budgets

InitDamaged ==
    /\ InitEngine
    /\ store = DamagedStore
    /\ upserted = StepsOf(DamagedStore)
    /\ budget = FaultBudget

\* The cache variables after a call that turned cache c into c2.
CacheBecomes(c, c2) ==
    LET Held(k) == k \in DOMAIN c2.entries
        new == (DOMAIN c2.entries) \ (DOMAIN c.entries)
    IN  /\ entries' = c2.entries
        /\ keys' = c2.keys
        /\ head' = c2.head
        /\ inserted' = IF new = {} THEN SelectSeq(inserted, Held)
                       ELSE Append(SelectSeq(inserted, Held), CHOOSE k \in new : TRUE)
        /\ evicted' = evicted \cup ((DOMAIN c.entries) \ (DOMAIN c2.entries))

CacheUnchanged == UNCHANGED <<entries, keys, head, mu, inserted, evicted>>

\* Whether a Redis call may fail now, and the count after it did or did not.
Errs == IF budget.errors > 0 THEN BOOLEAN ELSE {FALSE}
Counted(b, err) == IF err THEN [b EXCEPT !.errors = @ - 1] ELSE b

\* ----------------------------------------------------------- Compute ----
\* Compute, lines 153-158, on an L1 hit: return val, nil.
ReturnHitTouch(p, r, n, val) ==
    /\ call' = [call EXCEPT ![p] =
                  [IdleCall EXCEPT !.pc = "done", !.r = r, !.n = n, !.x = val, !.hit = TRUE]]
    /\ CacheBecomes(Cache, [Cache EXCEPT !.keys[head + 1] = hashFloat64(r),
                                         !.head = (head + 1) % size])
    /\ UNCHANGED mu
    /\ UNCHANGED <<store, issued, upserted, owner, podID, totalPods>>
    /\ budget' = [budget EXCEPT !.calls = @ - 1]
ReturnHit(p, r, n, val) ==
    /\ call' = [call EXCEPT ![p] =
                  [IdleCall EXCEPT !.pc = "done", !.r = r, !.n = n, !.x = val, !.hit = TRUE]]
    /\ CacheUnchanged
    /\ UNCHANGED <<store, issued, upserted, owner, podID, totalPods>>
    /\ budget' = [budget EXCEPT !.calls = @ - 1]

\* The process runs until main returns.
Running == owner.pc # "closed"

\* A handler is free when it has served no request, has returned the result
\* of its last one, or its last one panicked (net/http recovers the panic and
\* the server goes on).
Free(p) == call[p].pc \in {"idle", "done", "panic"}

\* Lines 160-165 after an L1 miss: isLocalR, which panics in getPodForR when
\* uint32(totalPods) is 0; a pod that is not the owner logs a warning; then
\* the call goes on to the checkpoint lookup.
ForwardedToOwner(r, n, id, pods) ==
    IF getPodForR(hashFloat64(r), pods) = Panic
    THEN [IdleCall EXCEPT !.pc = "panic", !.r = r, !.n = n]
    ELSE IF isLocalR(hashFloat64(r), id, pods)
    THEN [IdleCall EXCEPT !.pc = "lookup", !.r = r, !.n = n]
    ELSE [IdleCall EXCEPT !.pc = "done", !.r = r, !.n = n, !.warned = TRUE]
AfterOwnershipCheck(r, n, id, pods) ==
    IF getPodForR(hashFloat64(r), pods) = Panic
    THEN [IdleCall EXCEPT !.pc = "panic", !.r = r, !.n = n]
    ELSE [IdleCall EXCEPT !.pc = "lookup", !.r = r, !.n = n,
                          !.warned = ~isLocalR(hashFloat64(r), id, pods)]

\* handleCalculate, lines 334-350: the requests are grouped by r, each group's
\* n sorted ascending, and Compute is called group after group (in the order
\* the map yields them), n after n.  After a Compute(r, n) that followed
\* calls whose r were rs, the next call of the same request is for the same r
\* and an n that is no smaller, or for an r that has had no call yet.
NextOfGroup(rs, r, n, r2, n2) ==
    \/ r2 = r /\ n2 >= n
    \/ \A j \in DOMAIN rs : rs[j] # r2

\* A free handler calls Compute(r, n): the L1 probe.  The call is the first
\* of a new request, or the next of the request whose last Compute has
\* returned.  Handlers are interchangeable, so a new request goes to the
\* first free one.
ComputeCall(p) ==
    /\ Free(p)
    /\ RLock
    /\ \A q \in Procs : q < p => ~Free(q)
    /\ owner.pc \in {"serving", "exec"}
    /\ p <= budget.handlers
    /\ budget.calls > 0
    /\ \E r \in RValues, n \in Steps :
          /\ \/ served' = [served EXCEPT ![p] = <<r>>]
             \/ /\ call[p].pc = "done"
                /\ NextOfGroup(served[p], call[p].r, call[p].n, r, n)
                /\ served' = [served EXCEPT ![p] = Append(@, r)]
          /\ LET got == Get(Cache, hashFloat64(r), n)
             IN  IF got.ok
                 THEN ReturnHit(p, r, n, got.val)
                 ELSE /\ call' = [call EXCEPT ![p] = AfterOwnershipCheck(r, n, podID, totalPods)]
                      /\ CacheUnchanged
                      /\ UNCHANGED <<store, issued, upserted, owner, podID, totalPods>>
                      /\ budget' = [budget EXCEPT !.calls = @ - 1]

\* x and computeFrom, lines 170-179.
ResumeScratchZero(cp) ==
    IF cp.found THEN [x |-> cp.x, computeFrom |-> cp.startN]
                ELSE [x |-> 0, computeFrom |-> 0]
Resume(cp) ==
    IF cp.found THEN [x |-> cp.x, computeFrom |-> cp.startN]
                ELSE [x |-> Half, computeFrom |-> 0]

\* Lines 168-179: the checkpoint lookup, which Redis answers or fails.
Lookup(p) ==
    /\ call[p].pc = "lookup"
    /\ Running
    /\ \E err \in Errs :
       \E result \in IF err THEN {None}
                     ELSE LET first == ZRevRangeByScore(store[hashFloat64(call[p].r)], call[p].n)
                          IN  IF first = {} THEN {None} ELSE first :
          LET cp == findNearestCheckpoint(result)
              from == Resume(cp)
          IN  /\ budget' = Counted(budget, err)
              /\ call' = [call EXCEPT ![p].pc = IF from.computeFrom < call[p].n
                                                THEN "loop" ELSE "done",
                                       ![p].found = cp.found,
                                       ![p].malformed =
                                           (result # None /\ result.member = Malformed),
                                       ![p].x = from.x,
                                       ![p].i = from.computeFrom,
                                       ![p].startN = from.computeFrom,
                                       ![p].startX = from.x,
                                       ![p].ios = @ + 1,
                                       ![p].failed = err]
    /\ CacheUnchanged
    /\ UNCHANGED <<store, issued, upserted, owner, served, podID, totalPods>>

\* One pass of the loop, lines 182-185: x = r*x*(1-x); Set(rHash, i+1, x).
\* The call after its Set of step i + 1: on to storeCheckpoint, to the next
\* pass, or to the return.
AfterSetUnlessStored(cl) ==
    IF IsCheckpointStep(cl.i + 1) /\ cl.i + 1 \notin upserted[hashFloat64(cl.r)]
    THEN [cl EXCEPT !.pc = "store"]
    ELSE [cl EXCEPT !.i = @ + 1, !.pc = IF cl.i + 1 < cl.n THEN "loop" ELSE "done"]
AfterSet(cl) ==
    IF IsCheckpointStep(cl.i + 1)
    THEN [cl EXCEPT !.pc = "store"]
    ELSE [cl EXCEPT !.i = @ + 1, !.pc = IF cl.i + 1 < cl.n THEN "loop" ELSE "done"]

\* Set runs under the write lock.  For a key the map holds it is one step.
\* For a new key it is two, with the lock held in between: the eviction and
\* the insertion of the key with an empty series (lines 67-76), then the
\* write of the value and the unlock (line 77, SetValue).
Iteration(p) ==
    /\ call[p].pc = "loop"
    /\ Running
    /\ call[p].i < call[p].n
    /\ Lock
    /\ \E x1 \in {NextX[call[p].r][call[p].x]} :
       LET i1 == call[p].i + 1
           rHash == hashFloat64(call[p].r)
       IN  IF rHash \in DOMAIN entries
           THEN /\ \E c2 \in {Set(Cache, rHash, i1, x1)} : CacheBecomes(Cache, c2)
                /\ UNCHANGED mu
                /\ call' = [call EXCEPT ![p] = AfterSet([call[p] EXCEPT !.x = x1])]
           ELSE /\ \E c2 \in {InsertKey(Cache, rHash, i1, x1)} : CacheBecomes(Cache, c2)
                /\ mu' = p
                /\ call' = [call EXCEPT ![p].x = x1, ![p].pc = "set"]
    /\ UNCHANGED <<store, issued, upserted, owner, served, podID, totalPods, budget>>

SetValue(p) ==
    /\ call[p].pc = "set"
    /\ Running
    /\ mu = p
    /\ CacheBecomes(Cache, [Cache EXCEPT !.entries[hashFloat64(call[p].r)] =
                                             PutStep(@, call[p].i + 1, call[p].x)])
    /\ mu' = 0
    /\ call' = [call EXCEPT ![p] = AfterSet(call[p])]
    /\ UNCHANGED <<store, issued, upserted, owner, served, podID, totalPods, budget>>

\* Lines 187-189: storeCheckpoint(rHash, i+1, x).  On an error the ZADD may
\* or may not have reached Redis; the error is logged and dropped.
Checkpoint(p) ==
    /\ call[p].pc = "store"
    /\ Running
    /\ LET written == storeCheckpoint(store, hashFloat64(call[p].r), call[p].i + 1, call[p].x)
       IN  \E err \in Errs :
           \E applied \in (IF err THEN BOOLEAN ELSE {TRUE}) :
              /\ store' = (IF applied THEN written ELSE store)
              /\ issued' = issued \cup {<<hashFloat64(call[p].r), call[p].i + 1>>}
              /\ upserted' = (IF applied
                              THEN [upserted EXCEPT ![hashFloat64(call[p].r)] =
                                                        @ \cup {call[p].i + 1}]
                              ELSE upserted)
              /\ budget' = Counted(budget, err)
              /\ call' = [call EXCEPT ![p].pc = IF call[p].i + 1 < call[p].n
                                                THEN "loop" ELSE "done",
                                      ![p].i = @ + 1,
                                      ![p].ios = @ + 1,
                                      ![p].failed = @ \/ err]
    /\ CacheUnchanged
    /\ UNCHANGED <<owner, served, podID, totalPods>>

\* Line 192, return x, nil, is the move to "done" of the three actions above.

\* The loop of lines 181-190 run to its end from step i with value x, every
\* storeCheckpoint succeeding: the value returned, the cache and Redis after.
RECURSIVE Loop(_, _, _, _, _, _)
Loop(r, n, i, x, c, st) ==
    IF i >= n THEN [x |-> x, cache |-> c, store |-> st]
    ELSE LET x1 == LogisticStep(r, x)
             c1 == Set(c, hashFloat64(r), i + 1, x1)
             st1 == IF IsCheckpointStep(i + 1)
                    THEN storeCheckpoint(st, hashFloat64(r), i + 1, x1)
                    ELSE st
         IN  Loop(r, n, i + 1, x1, c1, st1)

\* What a call in state cl goes on to do when it runs alone to its end
\* against cache c and Redis contents st, Redis answering every call: the
\* outcomes it can have (none when it has panicked; one for each element
\* Redis may return first).
RECURSIVE Finish(_, _, _)
Finish(cl, c, st) ==
    LET rHash == hashFloat64(cl.r)
    IN  CASE cl.pc = "done" -> {[x |-> cl.x, cache |-> c, store |-> st]}
          [] cl.pc = "lookup" ->
               LET first == ZRevRangeByScore(st[rHash], cl.n)
               IN  {LET from == Resume(findNearestCheckpoint(result))
                    IN  Loop(cl.r, cl.n, from.computeFrom, from.x, c, st) :
                           result \in IF first = {} THEN {None} ELSE first}
          [] cl.pc = "loop" -> {Loop(cl.r, cl.n, cl.i, cl.x, c, st)}
          [] cl.pc = "set" ->
               Finish(AfterSet(cl),
                      [c EXCEPT !.entries[rHash] = PutStep(@, cl.i + 1, cl.x)], st)
          [] cl.pc = "store" ->
               {Loop(cl.r, cl.n, cl.i + 1, cl.x, c,
                     storeCheckpoint(st, rHash, cl.i + 1, cl.x))}
          [] OTHER -> {}

\* Compute(r, n) run alone by an engine with cache c, Redis contents st, pod
\* name id and pod count pods.
Compute(c, st, id, pods, r, n) ==
    LET got == Get(c, hashFloat64(r), n)
    IN  IF got.ok THEN {[x |-> got.val, cache |-> c, store |-> st]}
        ELSE Finish(AfterOwnershipCheck(r, n, id, pods), c, st)

\* ------------------------------------------------------ PreheatCache ----
\* The keys "cp:*" Redis holds now (a sorted set without members is no key).
StoreKeys == {k \in SeriesKeys : store[k] # {}}

\* One pass of the scan loop, lines 243-264, for a key the scan returns: the
\* fetch of its latest checkpoint fails (continue) or seeds L1.
PreheatKey ==
    /\ owner.pc = "preheat"
    /\ Lock
    /\ owner.loaded < preheatLimit
    /\ \E k \in StoreKeys \ owner.visited :
       \E err \in Errs :
          /\ budget' = Counted(budget, err)
          /\ IF err
             THEN /\ owner' = [owner EXCEPT !.visited = @ \cup {k}]
                  /\ CacheUnchanged
             ELSE \E result \in ZRevRange(store[k]) :
                  /\ CacheBecomes(Cache, Set(Cache, k, result.score, ScanF(result.member)))
                  /\ UNCHANGED mu
                  /\ owner' = [owner EXCEPT !.visited = @ \cup {k}, !.loaded = @ + 1]
    /\ UNCHANGED <<store, issued, upserted, call, served, podID, totalPods>>

\* The loop ends: loaded >= 50, or the iterator has no next key (the scan is
\* over, or a scan page failed).
PreheatEnd ==
    /\ owner.pc = "preheat"
    /\ owner' = OwnerAt("serving")
    /\ CacheUnchanged
    /\ UNCHANGED <<store, issued, upserted, call, served, podID, totalPods, budget>>

\* ------------------------------------------------------ FlushToRedis ----
\* Line 273: entries := e.l1Cache.GetAllEntries()
FlushSnapshot ==
    /\ owner.pc = "serving"
    /\ RLock
    /\ owner' = [OwnerAt("exec") EXCEPT !.snap = GetAllEntries(Cache)]
    /\ CacheUnchanged
    /\ UNCHANGED <<store, issued, upserted, call, served, podID, totalPods, budget>>

\* Lines 277-296: queue a ZADD per checkpoint step of the snapshot and, if
\* there is one, Exec.  On an error any part of the batch may have been applied.
FlushExec ==
    /\ owner.pc = "exec"
    /\ LET batch == Batch(owner.snap)
       IN  IF batch = {} THEN UNCHANGED <<store, issued, upserted, budget>>
           ELSE \E err \in Errs :
                \E part \in (IF err THEN SUBSET batch ELSE {batch}) :
                   /\ budget' = Counted(budget, err)
                   /\ issued' = issued \cup {<<b.key, b.score>> : b \in batch}
                   /\ store' \in Exec(store, part)
                   /\ upserted' = [k \in SeriesKeys |->
                                     upserted[k] \cup {b.score : b \in {c \in part : c.key = k}}]
    /\ owner' = OwnerAt("shutdown")
    /\ CacheUnchanged
    /\ UNCHANGED <<call, served, podID, totalPods>>

\* -------------------------------------------------------------- main ----
\* Lines 412-420: server.Shutdown has returned, because the handlers have all
\* returned or because its 10 s deadline has passed; main closes the Redis
\* client and returns, which ends the process and the handlers with it.
Close ==
    /\ owner.pc = "shutdown"
    /\ owner' = OwnerAt("closed")
    /\ CacheUnchanged
    /\ UNCHANGED <<store, issued, upserted, call, served, podID, totalPods, budget>>

\* The process that has ended is started again: a new engine with an empty L1
\* (lines 385-389) against the same Redis.
Restart ==
    /\ owner.pc = "closed"
    /\ budget.restarts > 0
    /\ budget' = [budget EXCEPT !.restarts = @ - 1]
    /\ entries' = NewL1Cache.entries
    /\ keys' = NewL1Cache.keys
    /\ head' = NewL1Cache.head
    /\ mu' = 0
    /\ inserted' = <<>>
    /\ evicted' = {}
    /\ issued' = {}
    /\ call' = [p \in Procs |-> IdleCall]
    /\ served' = [p \in Procs |-> <<>>]
    /\ owner' = OwnerAt("preheat")
    /\ UNCHANGED <<store, upserted, podID, totalPods>>

\* ------------------------------------------------------------- Redis ----
\* EXPIRE key 1h: the whole sorted set goes an hour after its last write.
Expire ==
    /\ budget.expiries > 0
    /\ \E k \in StoreKeys : /\ store' = [store EXCEPT ![k] = {}]
                            /\ upserted' = [upserted EXCEPT ![k] = {}]
    /\ budget' = [budget EXCEPT !.expiries = @ - 1]
    /\ CacheUnchanged
    /\ UNCHANGED <<call, owner, issued, served, podID, totalPods>>

\* ------------------------------------------------------ specification ----
Next ==
    \/ \E p \in Procs : ComputeCall(p)
    \/ \E p \in Procs : Lookup(p)
    \/ \E p \in Procs : Iteration(p)
    \/ \E p \in Procs : SetValue(p)
    \/ \E p \in Procs : Checkpoint(p)
    \/ PreheatKey
    \/ PreheatEnd
    \/ FlushSnapshot
    \/ FlushExec
    \/ Close
    \/ Restart
    \/ Expire

Spec == Init /\ [][Next]_vars

\* The same program started against a Redis that holds a damaged value.
SpecDamaged == InitDamaged /\ [][Next]_vars

\* The program under a fair scheduler: a handler whose next step stays
\* possible takes it (a goroutine that can run is run, a Redis call returns
\* within its timeouts, and sync.RWMutex hands the lock to a waiting writer).
Fairness ==
    \A p \in Procs : /\ WF_vars(Lookup(p))
                     /\ WF_vars(Iteration(p))
                     /\ WF_vars(SetValue(p))
                     /\ WF_vars(Checkpoint(p))

\* main's default pod configuration, with two handlers at work or with the
\* faults.
InitFair ==
    /\ Init
    /\ podID = "pod-0" /\ totalPods = 3
    /\ budget.handlers = 2 \/ budget = FaultBudget
SpecFair == InitFair /\ [][Next]_vars /\ Fairness

\* ============================================================ claims ====
Returned(p) == call[p].pc = "done"

\* C1: in every reachable state the L1 cache holds at most `size` distinct
\* series keys.
CacheWithinCapacity == Cardinality(DOMAIN entries) <= size

\* C1 witness: the cache is at capacity after an eviction took place.
FullAfterEviction == Cardinality(DOMAIN entries) = size /\ evicted # {}

UpdateEvictsNothing ==
    [][\A k \in DOMAIN entries :
          (k \in DOMAIN entries' /\ entries'[k] # entries[k])
          => /\ DOMAIN entries' = DOMAIN entries
             /\ \A j \in (DOMAIN entries) \ {k} : entries'[j] = entries[j]
             /\ \E n \in DOMAIN entries'[k] :
                   entries'[k] = PutStep(entries[k], n, entries'[k][n])
             /\ keys' = keys
             /\ head' = head]_vars

\* C3 witness: the cache is at capacity and the key inserted last has had a
\* further step set since.
UpdatedAtCapacity ==
    /\ Cardinality(DOMAIN entries) = size
    /\ Len(inserted) = size
    /\ Cardinality(DOMAIN entries[inserted[Len(inserted)]]) >= 2

\* C4: a Compute that missed L1 and found no checkpoint returns the n-th
\* iterate from 0.5; n = 0 gives 0.5, (r = 4, n = 1) gives 1.0 and
\* (r = 4, n = 2) gives 0.0.
ScratchReturnsIterate ==
    \A p \in Procs :
        (Returned(p) /\ ~call[p].hit /\ ~call[p].found)
        => /\ call[p].x = Iterate(call[p].r, call[p].n)
           /\ call[p].n = 0 => call[p].x = Half
           /\ (call[p].r = R400 /\ call[p].n = 1) => call[p].x = One
           /\ (call[p].r = R400 /\ call[p].n = 2) => call[p].x = 0

\* C4 witness: Compute(4.0, 2) has returned 0.0 from scratch.
ScratchReturned ==
    \E p \in Procs :
        /\ Returned(p) /\ ~call[p].hit /\ ~call[p].found
        /\ call[p].r = R400 /\ call[p].n = 2 /\ call[p].x = 0

\* C5: a Compute(r, n) called while L1 holds (Hash(r), n) returns the stored
\* value in that step, without a Redis call and without changing L1, the
\* ring, the cursor or Redis.
HitReturnsStored ==
    [][\A p \in Procs :
          (/\ Free(p)
           /\ call'[p] # call[p]
           /\ call'[p].pc # "idle"
           /\ Get(Cache, hashFloat64(call'[p].r), call'[p].n).ok)
          => /\ call'[p].pc = "done"
             /\ call'[p].x = Get(Cache, hashFloat64(call'[p].r), call'[p].n).val
             /\ call'[p].ios = 0
             /\ entries' = entries
             /\ keys' = keys
             /\ head' = head
             /\ store' = store]_vars

\* C5 witness: a call has been answered from L1.
HitReturned == \E p \in Procs : Returned(p) /\ call[p].hit /\ call[p].n >= 1

\* C6 (as claimed): a Compute that resumed from a checkpoint returns the
\* value a Compute from scratch returns.  Under Spec Redis starts empty, so
\* every checkpoint found was written by storeCheckpoint or FlushToRedis.
ResumeEqualsScratch ==
    \A p \in Procs :
        (Returned(p) /\ call[p].found)
        => call[p].x = Iterate(call[p].r, call[p].n)

\* C7 (as claimed): every (n, x) L1 holds for a key is the n-th iterate for
\* that key's r.
L1HoldsIterates ==
    \A k \in DOMAIN entries : \A n \in DOMAIN entries[k] :
        \E r \in RValues : hashFloat64(r) = k /\ entries[k][n] = Iterate(r, n)

\* C8 (as claimed): a Compute during which a Redis call failed returns the
\* value a computation without Redis returns.
FailureReturnsStoreless ==
    \A p \in Procs :
        (Returned(p) /\ call[p].failed)
        => call[p].x = Iterate(call[p].r, call[p].n)

\* C9 (as claimed): a lookup that returns a malformed value is treated as no
\* checkpoint: the call resumes from (0, 0.5).
MalformedIsNoCheckpoint ==
    \A p \in Procs :
        (call[p].pc \in {"loop", "store", "done"} /\ call[p].malformed)
        => /\ ~call[p].found
           /\ call[p].startN = 0
           /\ call[p].startX = Half

\* C10: Redis starts with checkpoint steps that are multiples of
\* checkpointMod only (Spec: none), and every step it holds later is one.
CheckpointStepsAreMultiples ==
    \A k \in SeriesKeys : \A e \in store[k] : e.score % checkpointMod = 0

\* C10 witness: after a flush Redis holds a checkpoint at 2 * checkpointMod.
SecondCheckpointStored ==
    /\ owner.pc = "shutdown"
    /\ \E k \in SeriesKeys : \E e \in store[k] : e.score = 2 * checkpointMod

\* C11 (as claimed): for every key Redis holds at most one (step, value) pair
\* per step; a write at a step that has a pair replaces that pair.
OnePairPerStep ==
    \A k \in SeriesKeys : \A e \in store[k] : \A f \in store[k] :
        e.score = f.score => e.member = f.member

\* C12 (as claimed): a lookup that Redis answers resumes from the largest
\* step <= n among the steps upserted for the key and not expired since, and
\* from (0, 0.5) only when there is no such step.
Largest(S) == CHOOSE s \in S : \A t \in S : t <= s
ResumesFromLargestUpserted ==
    [][\A p \in Procs :
          (call[p].pc = "lookup" /\ call'[p].pc # "lookup" /\ ~call'[p].failed)
          => LET live == {s \in upserted[hashFloat64(call[p].r)] : s <= call[p].n}
             IN  /\ call'[p].found = (live # {})
                 /\ call'[p].startN = Largest(live \cup {0})
                 /\ live = {} => call'[p].startX = Half]_vars

\* C13: whenever a handler has just missed L1 or has returned, a
\* Compute(r, n) started now for its r and n returns one value, and it is the
\* value it returns from the same L1 and Redis contents under any other pod
\* name, pod count and eviction cursor that let it return at all.
Cursors == 0..(size - 1)
OppositeOwnership(rHash) ==
    CHOOSE c \in PodIDs \X (1..MaxPods) :
        isLocalR(rHash, c[1], c[2]) # isLocalR(rHash, podID, totalPods)
OwnershipIsAdvisory ==
    \A p \in Procs :
        LET rHash == hashFloat64(call[p].r)
            other == OppositeOwnership(rHash)
        IN  (call[p].pc \in {"lookup", "done"} /\ getPodForR(rHash, totalPods) # Panic)
            => /\ ~call[p].hit => call[p].warned = ~isLocalR(rHash, podID, totalPods)
               /\ Compute(Cache, store, podID, totalPods, call[p].r, call[p].n)
                    = Compute(Cache, store, other[1], other[2], call[p].r, call[p].n)

\* C14 witness: a call on a pod that does not own its key has logged the
\* warning, computed from scratch past a checkpoint step and returned, with
\* the checkpoint in Redis.
NonOwnerComputedLocally ==
    \E p \in Procs :
        /\ Returned(p) /\ call[p].warned /\ ~call[p].found
        /\ call[p].n >= checkpointMod
        /\ store[hashFloat64(call[p].r)] # {}
        /\ call[p].n \in DOMAIN entries[hashFloat64(call[p].r)]

\* C15 (as claimed): for a pod count >= 1, a call that has asked getPodForR
\* for the owner of its key got an index i with 0 <= i < totalPods.
PodForInRange ==
    \A p \in Procs :
        (call[p].pc # "idle" /\ ~call[p].hit /\ totalPods >= 1)
        => /\ call[p].pc # "panic"
           /\ 0 <= getPodForR(hashFloat64(call[p].r), totalPods)
           /\ getPodForR(hashFloat64(call[p].r), totalPods) < totalPods

\* C16: the snapshot FlushToRedis takes is the whole map as it is at an
\* instant at which no Set is half-applied (no writer holds the lock, no key
\* has an empty series), the step leaves the cache as it is, and the snapshot
\* stays as taken while Sets and evictions go on.
SnapshotIsAtomicCopy ==
    [][/\ (owner.pc = "serving" /\ owner'.pc = "exec")
          => /\ owner'.snap = entries
             /\ mu = 0
             /\ \A k \in DOMAIN owner'.snap : owner'.snap[k] # EmptyMap
             /\ entries' = entries /\ keys' = keys /\ head' = head
       /\ (owner.pc = "exec" /\ owner'.pc = "exec") => owner'.snap = owner.snap]_vars

\* C16 witness: FlushToRedis holds a snapshot, a key of the snapshot has been
\* evicted since, and the Set that evicted it is half-applied.
SnapshotOutlivesEviction ==
    /\ owner.pc = "exec"
    /\ \E k \in DOMAIN owner.snap : k \notin DOMAIN entries
    /\ mu # 0

\* C17: the step that ends FlushToRedis leaves L1 as it is and is not taken
\* again; when Redis reports no error it has applied a ZADD of the text of
\* the snapshot's value for exactly the snapshot entries at multiples of
\* checkpointMod, and when Redis reports an error, for some of them and for
\* nothing else.
EligibleUpserts(snap) ==
    {[key |-> k, member |-> FormatE(snap[k][n]), score |-> n] :
        <<k, n>> \in {kn \in (DOMAIN snap) \X Steps :
                        /\ kn[2] \in DOMAIN snap[kn[1]]
                        /\ \E m \in Steps : kn[2] = m * checkpointMod}}
FlushUpsertsEligibleOnly ==
    [][(owner.pc = "exec" /\ owner'.pc # "exec")
       => LET eligible == EligibleUpserts(owner.snap)
              applied == IF budget'.errors = budget.errors
                         THEN {eligible} ELSE SUBSET eligible
          IN  /\ owner'.pc = "shutdown"
              /\ entries' = entries /\ keys' = keys /\ head' = head
              /\ \E part \in applied :
                    /\ store' \in Exec(store, part)
                    /\ \A k \in SeriesKeys :
                          upserted'[k] = upserted[k]
                                           \cup {b.score : b \in {c \in part : c.key = k}}]_vars

\* C17 witness: FlushToRedis is over after a Redis error, L1 holds a series
\* with a step at a multiple of checkpointMod and a step at none, and Redis
\* has had a ZADD for the first and none for the second.
FlushedEligibleStep ==
    /\ owner.pc = "shutdown"
    /\ budget.restarts > 0 /\ budget.errors < MaxErrors
    /\ \E k \in DOMAIN entries :
          /\ checkpointMod \in DOMAIN entries[k]
          /\ checkpointMod + 1 \in DOMAIN entries[k]
          /\ upserted[k] = {checkpointMod}

\* C18: no call waits for another or leaves its work to another.  While the
\* process runs, a call at its lookup, at its upsert or inside Set can take
\* that step whatever the other handler is doing; and a call that missed L1 has made, when it
\* returns, every pass of its loop, its own lookup and its own upsert for
\* each multiple of checkpointMod in (computeFrom, n], also for the steps
\* another call has upserted.
NoDeduplication ==
    \A p \in Procs :
        /\ (Running /\ call[p].pc = "lookup") => ENABLED Lookup(p)
        /\ (Running /\ call[p].pc = "set") => ENABLED SetValue(p)
        /\ (Running /\ call[p].pc = "store") => ENABLED Checkpoint(p)
        /\ (Returned(p) /\ ~call[p].hit)
           => /\ call[p].i = call[p].n \/ call[p].startN >= call[p].n
              /\ call[p].ios = 1 + Cardinality({m \in (call[p].startN + 1)..call[p].n :
                                                   m % checkpointMod = 0})

\* C18 witness: two handlers were in Compute for the same r and n at once,
\* both missed L1, both found no checkpoint, and both have returned after
\* their own lookup and upsert.
BothComputedTheSame ==
    /\ \A p \in Procs :
          /\ Returned(p) /\ ~call[p].hit /\ ~call[p].found
          /\ call[p].ios = 2
    /\ call[1].r = call[2].r /\ call[1].n = call[2].n

\* C19: a step of PreheatCache makes no Redis write, moves no call and evicts
\* nothing; a pass of its loop either skips the key (the fetch failed) or
\* seeds one key L1 did not hold with one entry, the key's checkpoint at the
\* largest step Redis holds for it; and while PreheatCache runs L1 holds one
\* entry for each of at most preheatLimit keys.
PreheatSeedsLatest ==
    [][(owner.pc = "preheat" /\ owner' # owner)
       => /\ store' = store /\ upserted' = upserted /\ call' = call
          /\ evicted' = {}
          /\ Cardinality(DOMAIN entries') <= preheatLimit
          /\ \A k \in DOMAIN entries' : Cardinality(DOMAIN entries'[k]) = 1
          /\ owner'.pc = "preheat"
             => \/ /\ owner'.loaded = owner.loaded
                   /\ owner'.visited # owner.visited
                   /\ budget'.errors < budget.errors
                   /\ entries' = entries
                \/ /\ owner'.loaded = owner.loaded + 1
                   /\ \E k \in (owner'.visited \ owner.visited) \ DOMAIN entries :
                      \E e \in store[k] :
                         /\ \A f \in store[k] : f.score <= e.score
                         /\ DOMAIN entries' = (DOMAIN entries) \cup {k}
                         /\ entries'[k] = PutStep(EmptyMap, e.score, ScanF(e.member))
                         /\ \A j \in DOMAIN entries : entries'[j] = entries[j]]_vars

\* C19 witness: PreheatCache has skipped a key whose fetch failed and seeded
\* another with its latest checkpoint, at a step above checkpointMod, and has
\* reached its limit.
PreheatSkippedAndSeeded ==
    /\ owner.pc = "preheat"
    /\ owner.loaded = preheatLimit
    /\ Cardinality(owner.visited) > owner.loaded
    /\ \E k \in DOMAIN entries : DOMAIN entries[k] = {2 * checkpointMod}


\* C20: on shutdown the eligible L1 entries are flushed before the server
\* stops accepting work and before the Redis connection is released, and the
\* connection is released only after the in-flight Compute calls have
\* finished or the shutdown deadline has passed; so, at the moment the
\* connection is released, every L1 entry at a multiple of the checkpoint
\* interval has had an upsert issued for it.
AllEligibleIssuedAtClose ==
    owner.pc = "closed"
    => \A k \in DOMAIN entries : \A n \in DOMAIN entries[k] :
          IsCheckpointStep(n) => <<k, n>> \in issued

\* C20, the part of it that holds: the same when no Compute call was in
\* flight as the connection was released.
AllEligibleIssuedAtQuietClose ==
    (owner.pc = "closed" /\ \A p \in Procs : Free(p))
    => \A k \in DOMAIN entries : \A n \in DOMAIN entries[k] :
          IsCheckpointStep(n) => <<k, n>> \in issued

\* C20, the order of main's steps: the flush comes before the server stops
\* accepting requests, and that before the release of the connection.
ShutdownOrder ==
    [][/\ (owner'.pc = "closed" /\ owner.pc # "closed") => owner.pc = "shutdown"
       /\ (owner'.pc = "shutdown" /\ owner.pc # "shutdown") => owner.pc = "exec"]_vars

\* C21: handleCalculate calls Compute group by group with each group's n
\* ascending; and when a Compute(r, n1) of a request has returned and L1
\* holds its step n1, the request's next Compute(r, n2) with n2 > n1 goes on
\* from the value in L1 and makes no checkpoint lookup in Redis.
LaterNUsesMemory ==
    [][\A p \in Procs :
          (/\ Returned(p)
           /\ served'[p] = Append(served[p], call[p].r)
           /\ call'[p].r = call[p].r
           /\ call'[p].n > call[p].n
           /\ Get(Cache, hashFloat64(call[p].r), call[p].n).ok)
          => call'[p].pc # "lookup"]_vars

\* C21, the part of it that holds: the calls of one request come group by
\* group, a group's n ascending.
GroupedAscending ==
    [][\A p \in Procs :
          (Len(served'[p]) > 1 /\ served'[p] # served[p])
          => /\ Returned(p)
             /\ \/ call'[p].r = call[p].r /\ call'[p].n >= call[p].n
                \/ \A j \in DOMAIN served[p] : served[p][j] # call'[p].r]_vars

\* C22 (as claimed): for every n >= 0, at the moment a Compute(r, n) returns,
\* L1 holds an entry for (hashFloat64(r), n), also when n = 0 and when the
\* call found a checkpoint at exactly step n.
ReturnLeavesEntry ==
    [][\A p \in Procs :
          (call'[p].pc = "done" /\ call'[p] # call[p])
          => Get(Cache', hashFloat64(call'[p].r), call'[p].n).ok]_vars

\* C22 (amended): every Set a call makes in its loop, the Set of step n by
\* which a call of at least one iteration ends among them, leaves the value
\* in L1 at its step; after a step of the running process that inserts no
\* key, L1 still holds an entry for every (key, step) it held; and a
\* Compute(r, n) called while L1 holds (hashFloat64(r), n) returns the value
\* L1 holds without any Redis call.  A call
\* that makes no iteration (n = 0, or a checkpoint at exactly step n) writes
\* nothing to L1.
MadeSet(p) ==
    /\ call[p].pc \in {"loop", "set"}
    /\ call'[p].pc \in {"loop", "store", "done"}
    /\ call'[p] # call[p]
SetLeavesEntryUntilInsert ==
    [][/\ \A p \in Procs :
             MadeSet(p) => Get(Cache', hashFloat64(call[p].r), call[p].i + 1)
                              = [val |-> call'[p].x, ok |-> TRUE]
       /\ (Running /\ (DOMAIN entries') \subseteq (DOMAIN entries))
          => \A k \in DOMAIN entries : \A n \in DOMAIN entries[k] :
                Get(Cache', k, n).ok
       /\ \A p \in Procs :
             (served'[p] # served[p] /\ Len(served'[p]) > 0)
             => LET got == Get(Cache, hashFloat64(call'[p].r), call'[p].n)
                IN  /\ got.ok => /\ call'[p].pc = "done" /\ call'[p].hit
                                 /\ call'[p].x = got.val
                                 /\ call'[p].ios = 0
                                 /\ store' = store
                    /\ ~got.ok => call'[p].pc \in {"lookup", "panic"}
       /\ \A p \in Procs :
             (call[p].pc = "lookup" /\ call'[p].pc = "done")
             => /\ entries' = entries
                /\ call'[p].startN >= call'[p].n]_vars

\* C22 witness: a request asked for the same (r, n) twice, n a step Redis
\* never holds; the first call computed step n and the second was answered
\* from L1 without a Redis call.
RepeatAnsweredFromL1 ==
    \E p \in Procs :
        /\ Returned(p) /\ call[p].hit /\ call[p].ios = 0
        /\ call[p].n >= 1 /\ ~IsCheckpointStep(call[p].n)
        /\ served[p] = <<call[p].r, call[p].r>>

\* C23: under a fair scheduler a Compute(r, n) call that has missed L1
\* returns, while the process runs, whatever Redis answers and whatever the
\* other handler does.  Its resume step s is in 0..n; its loop counter i goes
\* from s to n by one; and between i and i + 1 it makes one evaluation of the
\* recurrence and one Set, of that value at step i + 1.
InFlight(p) == call[p].pc \in {"lookup", "loop", "set", "store"}
CountsItsSteps(p) ==
    /\ (call[p].pc = "lookup" /\ call'[p] # call[p] /\ Running)
       => /\ call'[p].startN \in 0..call[p].n
          /\ call'[p].i = call'[p].startN
          /\ call'[p].pc = IF call'[p].startN = call[p].n THEN "done" ELSE "loop"
          /\ entries' = entries
    /\ (call[p].pc = "loop" /\ call'[p] # call[p] /\ Running)
       => /\ call[p].i < call[p].n
          /\ call'[p].x = LogisticStep(call[p].r, call[p].x)
          /\ call'[p].pc = "set" => call'[p].i = call[p].i
    /\ (call[p].pc = "set" /\ call'[p] # call[p] /\ Running)
       => call'[p].x = call[p].x
    /\ MadeSet(p)
       => /\ Get(Cache', hashFloat64(call[p].r), call[p].i + 1)
                = [val |-> call'[p].x, ok |-> TRUE]
          /\ \/ call'[p].pc = "store" /\ call'[p].i = call[p].i
             \/ /\ call'[p].i = call[p].i + 1
                /\ call'[p].pc = IF call'[p].i < call[p].n THEN "loop" ELSE "done"
    /\ (call[p].pc = "store" /\ call'[p] # call[p] /\ Running)
       => /\ call'[p].i = call[p].i + 1
          /\ call'[p].x = call[p].x
          /\ call'[p].pc = IF call'[p].i < call[p].n THEN "loop" ELSE "done"
          /\ entries' = entries
    /\ (InFlight(p) /\ Running)
       => /\ call'[p].r = call[p].r /\ call'[p].n = call[p].n
          /\ call[p].pc # "lookup" => call'[p].startN = call[p].startN
ComputeTerminates ==
    /\ \A p \in Procs : InFlight(p) ~> (Returned(p) \/ ~Running)
    /\ [](\A p \in Procs :
            /\ (InFlight(p) /\ call[p].pc # "lookup")
               => (0 <= call[p].startN /\ call[p].startN <= call[p].i
                   /\ call[p].i < call[p].n)
            /\ (Returned(p) /\ ~call[p].hit)
               => (0 <= call[p].startN /\ call[p].startN <= call[p].n
                   /\ call[p].i = call[p].n))
    /\ [][\A p \in Procs : CountsItsSteps(p)]_vars

\* C23 witness: a call resumed from a checkpoint at a step s, 0 < s < n, made
\* its n - s iterations and returned.
ResumedAndFinished ==
    \E p \in Procs :
        /\ Returned(p) /\ ~call[p].hit /\ call[p].found
        /\ 0 < call[p].startN /\ call[p].startN < call[p].n
        /\ call[p].i = call[p].n
        /\ Get(Cache, hashFloat64(call[p].r), call[p].n).ok
====
